---- MODULE Spec2Model ----
(***************************************************************************)
(* code-suggester: the tree builder, the batcher, the commit chainer, the  *)
(* reference updater and the push orchestrator of                          *)
(* src/github/commit-and-push.ts and src/github/create-commit.ts.          *)
(*                                                                         *)
(* The git object store is content addressed: an object id is modelled by  *)
(* the object it names, so writing the same object twice gives the same id *)
(* and different objects never share one.  The remote calls (octokit,      *)
(* isomorphic-git) are the environment: each either performs the operation *)
(* section 6 of the specification lists for it, or fails.                  *)
(***************************************************************************)
EXTENDS Integers, Sequences, FiniteSets, TLC

VARIABLES
    pc,           \* the step the running call is suspended at
    caller,       \* the exported function that was called
    objects,      \* the object store: every blob, tree and commit written
    localRef,     \* refs/heads/<branch>, the reference git.writeRef writes
    preHead,      \* what refs/heads/<branch> pointed at when the call began
    remoteRef,    \* the branch on the remote, moved by git.push
    baseHead,     \* the refHead argument of the call
    refHead,      \* commitAndPush's refHead variable / createTree's parameter
    tree,         \* commitAndPush: generateTreeObjects(changes); inGroupsOf: all
    filesPerCommit, \* the group size
    force,        \* the force argument
    signer,       \* whether options.signer is supplied
    i,            \* inGroupsOf's loop variable
    treeGroup,    \* the group being committed / createTree's tree parameter
    currentTree,  \* createTree's currentTree listing
    k,            \* number of changes of treeGroup already applied
    treeSha,      \* the id createTree returned
    signature,    \* the signature createCommit obtained
    chain,        \* the ids createCommit returned, in order
    yielded,      \* the groups inGroupsOf yielded, in order
    log,          \* the remote calls that completed, in order
    error,        \* the error the call rejected with
    blobAsDir,    \* a blob entry was met where a directory was descended into
    rival,        \* a second commitAndPush call on the same branch: its step and head
    br            \* branch(): the two repositories' branches and the call's locals

vars == <<pc, caller, objects, localRef, preHead, remoteRef, baseHead, refHead, tree,
          filesPerCommit, force, signer, i, treeGroup, currentTree, k, treeSha,
          signature, chain, yielded, log, error, blobAsDir, rival, br>>

---------------------------------------------------------------------------
\* Bounds of the model.
MaxChanges == 2      \* longest change list given to createTree / commitAndPush
MaxGroupSize == 2    \* largest filesPerCommit
MaxLen == 5          \* longest sequence given to inGroupsOf on its own
MaxYields == 4       \* groups followed of a generator that never returns

---------------------------------------------------------------------------
\* JavaScript values.
NULL == "<null>"
UNDEFINED == "<undefined>"
NoError == [step |-> "", wrapper |-> ""]

\* No second call is running; branch() is not running.
NoRival == [pc |-> "none", head |-> NULL, wrote |-> FALSE]
NoBranchCall == [pc |-> "none"]

\* One-letter names; a path string is its sequence of characters.
A == <<"a">>
B == <<"b">>
C == <<"c">>
Slash == <<"/">>

\* String.prototype.split('/').
RECURSIVE SplitAcc(_, _, _)
SplitAcc(s, cur, acc) ==
    IF s = <<>> THEN Append(acc, cur)
    ELSE IF Head(s) = "/" THEN SplitAcc(Tail(s), <<>>, Append(acc, cur))
    ELSE SplitAcc(Tail(s), Append(cur, Head(s)), acc)

Split(s) == SplitAcc(s, <<>>, <<>>)

\* Array.prototype.slice(start, end): a negative index counts from the end,
\* and both are clamped to the array.
Slice(all, start, end) ==
    LET len == Len(all)
        Rel(x) == IF x < 0 THEN (IF len + x < 0 THEN 0 ELSE len + x)
                  ELSE IF x > len THEN len ELSE x
        s == Rel(start)
        e == Rel(end)
    IN  IF s >= e THEN <<>> ELSE SubSeq(all, s + 1, e)

---------------------------------------------------------------------------
\* Git objects.  readTree and writeTree are inverse on listings.
Blob(content) == [kind |-> "blob", content |-> content]
TreeObj(entries) == [kind |-> "tree", tree |-> entries]
ReadTree(oid) == oid.tree
WriteTree(entries) == TreeObj(entries)

mode2type(mode) ==
    CASE mode = "040000" -> "tree"
      [] mode = "100644" -> "blob"
      [] mode = "100755" -> "blob"
      [] mode = "120000" -> "blob"
      [] mode = "160000" -> "commit"

\* Array.prototype.findIndex(entry => entry.path === part): 0-based, -1 if none.
FindIndex(listing, part) ==
    IF \E n \in 1..Len(listing) : listing[n].path = part
    THEN (CHOOSE n \in 1..Len(listing) :
              /\ listing[n].path = part
              /\ \A m \in 1..(n - 1) : listing[m].path /= part) - 1
    ELSE -1

\* Mutant of Splice: nothing is taken out of the listing.
SpliceNone(listing, index) == listing

\* newTree.splice(index, 1)
Splice(listing, index) ==
    SubSeq(listing, 1, index) \o SubSeq(listing, index + 2, Len(listing))

\* Mutant of Upsert: the entry is pushed even when the name is there already.
UpsertAlwaysPush(listing, existingIndex, newEntry) == Append(listing, newEntry)

\* newTree[existingIndex] = newEntry, or newTree.push(newEntry)
Upsert(listing, existingIndex, newEntry) ==
    IF existingIndex /= -1
    THEN [listing EXCEPT ![existingIndex + 1] = newEntry]
    ELSE Append(listing, newEntry)

\* Mutant of IsDeletion: content that is falsy counts as none.
IsDeletionFalsy(content) == content \in {NULL, UNDEFINED, ""}

\* fileData.content === null (145)
IsDeletion(content) == content = NULL

\* The result of one updateTreeRecursively call: the listing it returns, the
\* remote calls it makes in order, whether Buffer.from threw, and whether a
\* blob entry stood where it descended.
Result(listing, ops, threw, conflict) ==
    [tree |-> listing, ops |-> ops, threw |-> threw, blobAsDir |-> conflict]

RECURSIVE updateTreeRecursively(_, _, _)
updateTreeRecursively(existingTree, pathParts, fileData) ==
    LET newTree == existingTree
        part == Head(pathParts)
        remainingParts == Tail(pathParts)
        existingIndex == FindIndex(newTree, part)
    IN
    IF Len(remainingParts) = 0 THEN
        IF IsDeletion(fileData.content) THEN
            Result(IF existingIndex /= -1 THEN Splice(newTree, existingIndex)
                                          ELSE newTree,
                   <<>>, FALSE, FALSE)
        ELSE IF fileData.content = UNDEFINED THEN
            \* Buffer.from(undefined) throws a TypeError
            Result(existingTree, <<>>, TRUE, FALSE)
        ELSE
            LET blobOid == Blob(fileData.content)
                newEntry == [mode |-> fileData.mode, path |-> part,
                             oid |-> blobOid, type |-> "blob"]
            IN  Result(Upsert(newTree, existingIndex, newEntry),
                       <<[op |-> "writeBlob", obj |-> blobOid]>>, FALSE, FALSE)
    ELSE
        LET found == existingIndex /= -1
            isTree == found /\ newTree[existingIndex + 1].type = "tree"
            subTree == IF isTree THEN ReadTree(newTree[existingIndex + 1].oid)
                                 ELSE <<>>
            readOps == IF isTree
                       THEN <<[op |-> "readTree",
                               obj |-> newTree[existingIndex + 1].oid]>>
                       ELSE <<>>
            sub == updateTreeRecursively(subTree, remainingParts, fileData)
            conflict == (found /\ ~isTree) \/ sub.blobAsDir
        IN
        IF sub.threw THEN Result(existingTree, readOps \o sub.ops, TRUE, conflict)
        ELSE
            LET newSubTreeOid == WriteTree(sub.tree)
                newEntry == [mode |-> "040000", path |-> part,
                             oid |-> newSubTreeOid, type |-> "tree"]
            IN  Result(Upsert(newTree, existingIndex, newEntry),
                       readOps \o sub.ops
                           \o <<[op |-> "writeTree", obj |-> newSubTreeOid]>>,
                       FALSE, conflict)

\* Mutant of InputAfter: newTree is the caller's array itself, not a copy.
InputAfterAliased(existingTree, returned) == returned

\* const newTree = [...existingTree] (138): the function works on a copy, so
\* the array it was given holds afterwards what it held before.
InputAfter(existingTree, returned) == existingTree

\* The caller's array once updateTreeRecursively has returned.
ExistingTreeAfter(existingTree, pathParts, fileData) ==
    InputAfter(existingTree,
               updateTreeRecursively(existingTree, pathParts, fileData).tree)

---------------------------------------------------------------------------
\* Reading a tree back.
Range(s) == {s[n] : n \in 1..Len(s)}

Missing == [mode |-> "", path |-> <<>>, oid |-> NULL, type |-> "missing"]

\* The entry a path (a sequence of names) leads to, through tree entries only.
RECURSIVE Lookup(_, _)
Lookup(listing, parts) ==
    LET idx == FindIndex(listing, Head(parts))
    IN  IF idx = -1 THEN Missing
        ELSE IF Len(parts) = 1 THEN listing[idx + 1]
        ELSE IF listing[idx + 1].type = "tree"
             THEN Lookup(ReadTree(listing[idx + 1].oid), Tail(parts))
             ELSE Missing

Exists(listing, parts) == Lookup(listing, parts).type /= "missing"

\* What a reader of the file at a path gets: its mode and content.
FileAt(listing, parts) ==
    LET e == Lookup(listing, parts)
    IN  IF e.type = "blob" THEN [mode |-> e.mode, content |-> e.oid.content]
        ELSE [mode |-> "", content |-> NULL]

\* Every entry below a listing: <<path, mode, type, content>>.
RECURSIVE Entries(_, _)
Entries(listing, prefix) ==
    UNION { {<<Append(prefix, e.path), e.mode, e.type,
               IF e.type = "blob" THEN e.oid.content ELSE "">>}
            \cup (IF e.type = "tree"
                  THEN Entries(ReadTree(e.oid), Append(prefix, e.path))
                  ELSE {})
            : e \in Range(listing) }

DirPaths(listing) == {x[1] : x \in {y \in Entries(listing, <<>>) : y[3] = "tree"}}

FilePaths(listing) == {x[1] : x \in {y \in Entries(listing, <<>>) : y[3] = "blob"}}

\* Every object a listing reaches.
RECURSIVE ObjectsIn(_)
ObjectsIn(listing) ==
    UNION { {e.oid} \cup (IF e.type = "tree" THEN ObjectsIn(ReadTree(e.oid)) ELSE {})
            : e \in Range(listing) }

IsPrefix(p, q) == Len(p) <= Len(q) /\ SubSeq(q, 1, Len(p)) = p
IsProperPrefix(p, q) == Len(p) < Len(q) /\ IsPrefix(p, q)

---------------------------------------------------------------------------
\* The inputs the model draws from.
File(name, mode, content) ==
    [mode |-> mode, path |-> name, oid |-> Blob(content), type |-> "blob"]
Dir(name, entries) ==
    [mode |-> "040000", path |-> name, oid |-> TreeObj(entries), type |-> "tree"]

\* Existing trees, as readTree returns them (entries in name order).
Trees == {
    <<>>,
    <<File(A, "100644", "o"), File(C, "100755", "p")>>,
    <<Dir(A, <<File(A, "100644", "o"), File(B, "100755", "o"),
               File(C, "100644", "p")>>),
      File(C, "100644", "o")>>,
    <<Dir(A, <<Dir(B, <<File(A, "100644", "o"), File(C, "100644", "p")>>),
               File(C, "100644", "o")>>),
      File(B, "100755", "o")>>,
    <<Dir(A, <<Dir(B, <<File(A, "100644", "o")>>)>>),
      Dir(B, <<Dir(A, <<File(B, "100755", "o")>>)>>)>> }

\* Change paths: a, a/a, a/b, a/b/a, b/a/b.
Paths == { A, A \o Slash \o A, A \o Slash \o B,
           A \o Slash \o B \o Slash \o A, B \o Slash \o A \o Slash \o B }

\* FileData values: a deletion, and two files that differ in content and mode,
\* one of them empty.
FileDatas == { [content |-> NULL, mode |-> "100644"],
               [content |-> "x", mode |-> "100644"],
               [content |-> "", mode |-> "100755"] }

SeqsUpTo(S, n) == UNION { [1..m -> S] : m \in 0..n }

\* One element of generateTreeObjects' result.
TreeObjectOf(path, fileData) ==
    IF fileData.content = NULL
    THEN [path |-> path, mode |-> fileData.mode, type |-> mode2type(fileData.mode),
          sha |-> NULL, content |-> UNDEFINED]
    ELSE [path |-> path, mode |-> fileData.mode, type |-> mode2type(fileData.mode),
          sha |-> UNDEFINED, content |-> fileData.content]

\* changes.forEach in insertion order; changes is a sequence of <<path, FileData>>
\* with distinct paths (a Map).
generateTreeObjects(changes) ==
    [n \in 1..Len(changes) |-> TreeObjectOf(changes[n][1], changes[n][2])]

\* TreeObject values a caller of createTree can pass: those generateTreeObjects
\* makes, and deletions that carry content null.
TreeObjects ==
    { TreeObjectOf(p, f) : p \in Paths, f \in FileDatas }
    \cup { [path |-> p, mode |-> "100644", type |-> "blob", sha |-> NULL,
            content |-> NULL] : p \in Paths }

BaseCommit(listing) ==
    [kind |-> "commit", tree |-> TreeObj(listing), parent |-> <<>>,
     message |-> "base", signingKey |-> UNDEFINED]

StoreOf(commit) == {commit, commit.tree} \cup ObjectsIn(ReadTree(commit.tree))

---------------------------------------------------------------------------
\* Errors.  A call that rejects stops at "failed" with the error it threw.
AddingToTree == "Error adding to tree"
CreatingCommit == "Error creating commit for"
UpdatingRef == "Error updating ref"

\* Mutant of Rejected: the loop's errors are caught and the call goes on to
\* the reference update.
RejectedSwallowed(step) ==
    IF step \in {"push", "writeRef"} THEN "failed" ELSE "updateRef"

\* Where a throw of a step leaves the running call: nothing in commitAndPush or
\* createTree's callers catches, so the call rejects.
Rejected(step) == "failed"

Throw(step, wrapper) ==
    /\ pc' = Rejected(step)
    /\ error' = [step |-> step, wrapper |-> wrapper]

OpNames(ops) == [n \in 1..Len(ops) |-> ops[n].op]
Written(ops) == {ops[n].obj : n \in {m \in 1..Len(ops) : ops[m].op /= "readTree"}}

---------------------------------------------------------------------------
\* createTree (commit-and-push.ts 91-130).
\* Mutant of oldTreeSha: every batch starts from the tree of the supplied base.
oldTreeShaOfBase == baseHead.tree

\* const oldTreeSha = commitData.tree.sha, of the commit refHead names (105)
oldTreeSha == refHead.tree

\* createCommit's first step: the signer is asked only when there is one.
CreateCommitEntry == IF signer THEN "sign" ELSE "fetch"

\* octokit.git.getCommit
GetCommit ==
    /\ pc = "getCommit"
    /\ refHead \in objects
    /\ pc' = "readTree"
    /\ log' = Append(log, "getCommit")
    /\ UNCHANGED <<rival, br, caller, objects, localRef, preHead, remoteRef, baseHead, refHead,
                   tree, filesPerCommit, force, signer, i, treeGroup, currentTree,
                   k, treeSha, signature, chain, yielded, error, blobAsDir>>

GetCommitFail ==
    /\ pc = "getCommit"
    /\ Throw("getCommit", AddingToTree)
    /\ UNCHANGED <<rival, br, caller, objects, localRef, preHead, remoteRef, baseHead, refHead,
                   tree, filesPerCommit, force, signer, i, treeGroup, currentTree,
                   k, treeSha, signature, chain, yielded, log, blobAsDir>>

\* git.readTree of the commit's tree
ReadOldTree ==
    /\ pc = "readTree"
    /\ currentTree' = ReadTree(oldTreeSha)
    /\ k' = 0
    /\ pc' = "forChanges"
    /\ log' = Append(log, "readTree")
    /\ UNCHANGED <<rival, br, caller, objects, localRef, preHead, remoteRef, baseHead, refHead,
                   tree, filesPerCommit, force, signer, i, treeGroup, treeSha,
                   signature, chain, yielded, error, blobAsDir>>

ReadOldTreeFail ==
    /\ pc = "readTree"
    /\ Throw("readTree", AddingToTree)
    /\ UNCHANGED <<rival, br, caller, objects, localRef, preHead, remoteRef, baseHead, refHead,
                   tree, filesPerCommit, force, signer, i, treeGroup, currentTree,
                   k, treeSha, signature, chain, yielded, log, blobAsDir>>

\* Mutant of Carried: the loop drops what a change did to the listing.
CarriedStale(updated, unchanged) == unchanged

\* The listing the loop carries into the next change.
Carried(updated, unchanged) == updated

\* One iteration of the for loop: the whole updateTreeRecursively call succeeds.
ApplyChange ==
    /\ pc = "forChanges"
    /\ k < Len(treeGroup)
    /\ LET fileData == treeGroup[k + 1]
           pathParts == Split(fileData.path)
           r == updateTreeRecursively(currentTree, pathParts, fileData)
       IN  /\ ~r.threw
           /\ currentTree' = Carried(r.tree, currentTree)
           /\ objects' = objects \cup Written(r.ops)
           /\ log' = log \o OpNames(r.ops)
           /\ blobAsDir' = (blobAsDir \/ r.blobAsDir)
    /\ k' = k + 1
    /\ UNCHANGED <<rival, br, pc, caller, localRef, preHead, remoteRef, baseHead, refHead, tree,
                   filesPerCommit, force, signer, i, treeGroup, treeSha, signature,
                   chain, yielded, error>>

\* One iteration fails: at its f-th remote call, or in Buffer.from once every
\* remote call before it is through.  What was written before stays written.
ApplyChangeFail ==
    /\ pc = "forChanges"
    /\ k < Len(treeGroup)
    /\ LET fileData == treeGroup[k + 1]
           pathParts == Split(fileData.path)
           r == updateTreeRecursively(currentTree, pathParts, fileData)
           last == Len(r.ops) + (IF r.threw THEN 1 ELSE 0)
       IN  \E f \in 1..last :
               /\ objects' = objects \cup Written(SubSeq(r.ops, 1, f - 1))
               /\ log' = log \o OpNames(SubSeq(r.ops, 1, f - 1))
               /\ Throw(IF f <= Len(r.ops) THEN r.ops[f].op ELSE "Buffer.from",
                        AddingToTree)
    /\ UNCHANGED <<rival, br, caller, localRef, preHead, remoteRef, baseHead, refHead, tree,
                   filesPerCommit, force, signer, i, treeGroup, currentTree, k,
                   treeSha, signature, chain, yielded, blobAsDir>>

\* git.writeTree of the root listing; createTree returns its id.
WriteRootTree ==
    /\ pc = "forChanges"
    /\ k = Len(treeGroup)
    /\ treeSha' = WriteTree(currentTree)
    /\ objects' = objects \cup {treeSha'}
    /\ log' = Append(log, "writeTree")
    /\ pc' = IF caller = "createTree" THEN "returned" ELSE CreateCommitEntry
    /\ signature' = UNDEFINED
    /\ UNCHANGED <<rival, br, caller, localRef, preHead, remoteRef, baseHead, refHead, tree,
                   filesPerCommit, force, signer, i, treeGroup, currentTree, k,
                   chain, yielded, error, blobAsDir>>

WriteRootTreeFail ==
    /\ pc = "forChanges"
    /\ k = Len(treeGroup)
    /\ Throw("writeTree", AddingToTree)
    /\ UNCHANGED <<rival, br, caller, objects, localRef, preHead, remoteRef, baseHead, refHead,
                   tree, filesPerCommit, force, signer, i, treeGroup, currentTree,
                   k, treeSha, signature, chain, yielded, log, blobAsDir>>

createTree ==
    \/ GetCommit \/ GetCommitFail
    \/ ReadOldTree \/ ReadOldTreeFail
    \/ ApplyChange \/ ApplyChangeFail
    \/ WriteRootTree \/ WriteRootTreeFail

\* A direct call createTree(octokit, origin, refHead, tree, gitConfig).
InitTree ==
    /\ baseHead \in {BaseCommit(t) : t \in Trees}
    /\ treeGroup \in SeqsUpTo(TreeObjects, MaxChanges)
    /\ caller = "createTree"
    /\ pc = "getCommit"
    /\ refHead = baseHead
    /\ objects = StoreOf(baseHead)
    /\ localRef = baseHead
    /\ preHead = baseHead
    /\ remoteRef = baseHead
    /\ tree = <<>>
    /\ filesPerCommit = 1
    /\ force = FALSE
    /\ signer = FALSE
    /\ i = 0
    /\ currentTree = <<>>
    /\ k = 0
    /\ treeSha = UNDEFINED
    /\ signature = UNDEFINED
    /\ chain = <<>>
    /\ yielded = <<>>
    /\ log = <<>>
    /\ error = NoError
    /\ blobAsDir = FALSE
    /\ rival = NoRival
    /\ br = NoBranchCall

NextTree == createTree

SpecTree == InitTree /\ [][NextTree]_vars

---------------------------------------------------------------------------
\* inGroupsOf (commit-and-push.ts 70-77), a generator resumed by for...of.
DEFAULT_FILES_PER_COMMIT == 100

\* Mutant of GroupAt: the slice ends one element early.
GroupAtShort(all, index, groupSize) == Slice(all, index, index + groupSize - 1)

\* all.slice(i, i + groupSize)
GroupAt(all, index, groupSize) == Slice(all, index, index + groupSize)

\* Mutant of Sequel: the push is issued before the reference is written.
SequelPushFirst(step) ==
    CASE step = "loop" -> "push"
      [] step = "push" -> "updateRef"
      [] step = "updateRef" -> "done"

\* commitAndPush's statements after the loop, in order (279-283).
Sequel(step) ==
    CASE step = "loop" -> "updateRef"
      [] step = "updateRef" -> "push"
      [] step = "push" -> "done"

\* Mutant of NextIndex: the index advances by one whatever the group size.
NextIndexByOne(index, groupSize) == index + 1

\* i += groupSize
NextIndex(index, groupSize) == index + groupSize

\* i < all.length: the generator yields the next group.
Yield ==
    /\ pc = "inGroupsOf"
    /\ i < Len(tree)
    /\ filesPerCommit >= 1 \/ Len(yielded) < MaxYields
    /\ treeGroup' = GroupAt(tree, i, filesPerCommit)
    /\ yielded' = Append(yielded, treeGroup')
    /\ i' = NextIndex(i, filesPerCommit)
    /\ pc' = IF caller = "inGroupsOf" THEN "inGroupsOf" ELSE "getCommit"
    /\ UNCHANGED <<rival, br, caller, objects, localRef, preHead, remoteRef, baseHead, refHead,
                   tree, filesPerCommit, force, signer, currentTree, k, treeSha,
                   signature, chain, log, error, blobAsDir>>

\* i >= all.length: the generator returns and the for...of loop ends.
GeneratorReturn ==
    /\ pc = "inGroupsOf"
    /\ i >= Len(tree)
    /\ pc' = IF caller = "inGroupsOf" THEN "generatorDone" ELSE Sequel("loop")
    /\ UNCHANGED <<rival, br, caller, objects, localRef, preHead, remoteRef, baseHead, refHead,
                   tree, filesPerCommit, force, signer, i, treeGroup, currentTree,
                   k, treeSha, signature, chain, yielded, log, error, blobAsDir>>

inGroupsOf == Yield \/ GeneratorReturn

---------------------------------------------------------------------------
\* createCommit (create-commit.ts 45-82).
commitMessage == "message"

\* Mutant of Signature: the signer is not told the parent of the commit.
SignatureNoParents(message, treeId, parents) ==
    [message |-> message, tree |-> treeId, parents |-> <<>>]

\* What the signer is given, and so what its signature covers.
Signature(message, treeId, parents) ==
    [message |-> message, tree |-> treeId, parents |-> parents]

\* The commit object git.commit writes.
GitCommit(parentId, treeId, message, signingKey) ==
    [kind |-> "commit", tree |-> treeId, parent |-> <<parentId>>,
     message |-> message, signingKey |-> signingKey]

\* Mutant of ChainHead: the loop keeps committing on the head it started with.
ChainHeadKept(previous, sha) == previous

\* refHead = await createCommit(refHead, ...) (commit-and-push.ts 276)
ChainHead(previous, sha) == sha

\* options.signer.generateSignature
Sign ==
    /\ pc = "sign"
    /\ signature' = Signature(commitMessage, treeSha, <<refHead>>)
    /\ log' = Append(log, "sign")
    /\ pc' = "fetch"
    /\ UNCHANGED <<rival, br, caller, objects, localRef, preHead, remoteRef, baseHead, refHead,
                   tree, filesPerCommit, force, signer, i, treeGroup, currentTree,
                   k, treeSha, chain, yielded, error, blobAsDir>>

SignFail ==
    /\ pc = "sign"
    /\ Throw("sign", CreatingCommit)
    /\ UNCHANGED <<rival, br, caller, objects, localRef, preHead, remoteRef, baseHead, refHead,
                   tree, filesPerCommit, force, signer, i, treeGroup, currentTree,
                   k, treeSha, signature, chain, yielded, log, blobAsDir>>

\* git.fetch
Fetch ==
    /\ pc = "fetch"
    /\ log' = Append(log, "fetch")
    /\ pc' = "commit"
    /\ UNCHANGED <<rival, br, caller, objects, localRef, preHead, remoteRef, baseHead, refHead,
                   tree, filesPerCommit, force, signer, i, treeGroup, currentTree,
                   k, treeSha, signature, chain, yielded, error, blobAsDir>>

FetchFail ==
    /\ pc = "fetch"
    /\ Throw("fetch", CreatingCommit)
    /\ UNCHANGED <<rival, br, caller, objects, localRef, preHead, remoteRef, baseHead, refHead,
                   tree, filesPerCommit, force, signer, i, treeGroup, currentTree,
                   k, treeSha, signature, chain, yielded, log, blobAsDir>>

\* git.commit; createCommit returns the id and the loop takes it as refHead.
Commit ==
    /\ pc = "commit"
    /\ LET sha == GitCommit(refHead, treeSha, commitMessage, signature)
       IN  /\ objects' = objects \cup {sha}
           /\ chain' = Append(chain, sha)
           /\ refHead' = ChainHead(refHead, sha)
    /\ log' = Append(log, "commit")
    /\ pc' = "inGroupsOf"
    /\ UNCHANGED <<rival, br, caller, localRef, preHead, remoteRef, baseHead, tree,
                   filesPerCommit, force, signer, i, treeGroup, currentTree, k,
                   treeSha, signature, yielded, error, blobAsDir>>

CommitFail ==
    /\ pc = "commit"
    /\ Throw("commit", CreatingCommit)
    /\ UNCHANGED <<rival, br, caller, objects, localRef, preHead, remoteRef, baseHead, refHead,
                   tree, filesPerCommit, force, signer, i, treeGroup, currentTree,
                   k, treeSha, signature, chain, yielded, log, blobAsDir>>

createCommit == Sign \/ SignFail \/ Fetch \/ FetchFail \/ Commit \/ CommitFail

---------------------------------------------------------------------------
\* updateRef (commit-and-push.ts 217-238) and the push (281).
RECURSIVE Ancestors(_)
Ancestors(commit) ==
    UNION { {commit.parent[n]} \cup Ancestors(commit.parent[n])
            : n \in 1..Len(commit.parent) }

\* The store's check of a reference write that is not forced.
FastForward(old, new) == old = new \/ old \in Ancestors(new)

\* Mutant of WriteRefForce: the reference write is always forced.
WriteRefForceAlways(isForce) == TRUE

\* The force option updateRef hands to git.writeRef (229).
WriteRefForce(isForce) == isForce

\* git.writeRef
UpdateRef ==
    /\ pc = "updateRef"
    /\ WriteRefForce(force) \/ FastForward(localRef, refHead)
    /\ localRef' = refHead
    /\ log' = Append(log, "writeRef")
    /\ pc' = Sequel("updateRef")
    /\ UNCHANGED <<rival, br, caller, objects, preHead, remoteRef, baseHead, refHead, tree,
                   filesPerCommit, force, signer, i, treeGroup, currentTree, k,
                   treeSha, signature, chain, yielded, error, blobAsDir>>

UpdateRefFail ==
    /\ pc = "updateRef"
    /\ Throw("writeRef", UpdatingRef)
    /\ UNCHANGED <<rival, br, caller, objects, localRef, preHead, remoteRef, baseHead, refHead,
                   tree, filesPerCommit, force, signer, i, treeGroup, currentTree,
                   k, treeSha, signature, chain, yielded, log, blobAsDir>>

\* git.push: the remote branch takes the local reference.
Push ==
    /\ pc = "push"
    /\ force \/ FastForward(remoteRef, localRef)
    /\ remoteRef' = localRef
    /\ log' = Append(log, "push")
    /\ pc' = Sequel("push")
    /\ UNCHANGED <<rival, br, caller, objects, localRef, preHead, baseHead, refHead, tree,
                   filesPerCommit, force, signer, i, treeGroup, currentTree, k,
                   treeSha, signature, chain, yielded, error, blobAsDir>>

\* The push is not wrapped: its error reaches the caller as thrown.
PushFail ==
    /\ pc = "push"
    /\ Throw("push", "")
    /\ UNCHANGED <<rival, br, caller, objects, localRef, preHead, remoteRef, baseHead, refHead,
                   tree, filesPerCommit, force, signer, i, treeGroup, currentTree,
                   k, treeSha, signature, chain, yielded, log, blobAsDir>>

updateRef == UpdateRef \/ UpdateRefFail

---------------------------------------------------------------------------
\* commitAndPush (commit-and-push.ts 257-284).
PushTrees == {
    <<File(A, "100644", "o"), File(C, "100755", "p")>>,
    <<Dir(A, <<Dir(B, <<File(A, "100644", "o"), File(C, "100644", "p")>>),
               File(C, "100644", "o")>>),
      File(B, "100755", "o")>> }

\* a, a/b, b/a/b
PushPaths == { A, A \o Slash \o B, B \o Slash \o A \o Slash \o B }

\* A Changes map: its entries in insertion order, no path twice.
ChangeMaps ==
    { ch \in SeqsUpTo(PushPaths \X FileDatas, MaxChanges) :
          \A m, n \in 1..Len(ch) : m /= n => ch[m][1] /= ch[n][1] }

\* options?.filesPerCommit ?? DEFAULT_FILES_PER_COMMIT: the option when it is
\* given, the default when it is not.
FilesPerCommitValues == (1..MaxGroupSize) \cup {DEFAULT_FILES_PER_COMMIT}

\* A commit someone else has put on the branch since the base was resolved.
OtherCommit(parentId) ==
    [kind |-> "commit", tree |-> parentId.tree, parent |-> <<parentId>>,
     message |-> "other", signingKey |-> UNDEFINED]

\* The call has run generateTreeObjects and is about to enter the loop.  The
\* branch is at the supplied base, or has advanced past it.
Init ==
    /\ baseHead \in {BaseCommit(t) : t \in PushTrees}
    /\ tree \in {generateTreeObjects(ch) : ch \in ChangeMaps}
    /\ filesPerCommit \in FilesPerCommitValues
    /\ force \in BOOLEAN
    /\ signer \in BOOLEAN
    /\ caller = "commitAndPush"
    /\ pc = "inGroupsOf"
    /\ refHead = baseHead
    /\ localRef \in {baseHead, OtherCommit(baseHead)}
    /\ objects = StoreOf(baseHead) \cup {localRef}
    /\ preHead = localRef
    /\ remoteRef = localRef
    /\ i = 0
    /\ treeGroup = <<>>
    /\ currentTree = <<>>
    /\ k = 0
    /\ treeSha = UNDEFINED
    /\ signature = UNDEFINED
    /\ chain = <<>>
    /\ yielded = <<>>
    /\ log = <<>>
    /\ error = NoError
    /\ blobAsDir = FALSE
    /\ rival = NoRival
    /\ br = NoBranchCall

Next ==
    \/ inGroupsOf
    \/ createTree
    \/ createCommit
    \/ updateRef
    \/ Push \/ PushFail

Spec == Init /\ [][Next]_vars

---------------------------------------------------------------------------
\* inGroupsOf called on its own, its groups collected in yield order.
GroupElements == { TreeObjectOf(A, [content |-> "x", mode |-> "100644"]),
                   TreeObjectOf(A \o Slash \o B, [content |-> NULL, mode |-> "100644"]) }

InitGroups ==
    /\ tree \in SeqsUpTo(GroupElements, MaxLen)
    /\ filesPerCommit \in 1..(MaxGroupSize + 1)
    /\ caller = "inGroupsOf"
    /\ pc = "inGroupsOf"
    /\ baseHead = BaseCommit(<<>>)
    /\ refHead = baseHead
    /\ objects = StoreOf(baseHead)
    /\ localRef = baseHead
    /\ preHead = baseHead
    /\ remoteRef = baseHead
    /\ force = FALSE
    /\ signer = FALSE
    /\ i = 0
    /\ treeGroup = <<>>
    /\ currentTree = <<>>
    /\ k = 0
    /\ treeSha = UNDEFINED
    /\ signature = UNDEFINED
    /\ chain = <<>>
    /\ yielded = <<>>
    /\ log = <<>>
    /\ error = NoError
    /\ blobAsDir = FALSE
    /\ rival = NoRival
    /\ br = NoBranchCall

NextGroups == inGroupsOf

SpecGroups == InitGroups /\ [][NextGroups]_vars

---------------------------------------------------------------------------
\* Properties of the tree build (SpecTree).
OldTree == ReadTree(baseHead.tree)
NewTree == ReadTree(treeSha)
Returned == caller = "createTree" /\ pc = "returned"
PartsOf(n) == Split(treeGroup[n].path)
ChangePaths == {PartsOf(n) : n \in 1..Len(treeGroup)}
HasContent(n) == treeGroup[n].content \notin {NULL, UNDEFINED}

\* C1: a file of the existing tree whose path is not a change path reads back
\* with the same content and mode from the tree createTree returns.
C1_UntouchedPathsPreserved ==
    Returned =>
        \A p \in FilePaths(OldTree) :
            p \notin ChangePaths => FileAt(NewTree, p) = FileAt(OldTree, p)

\* No two changes name the same path, and no change path runs through another.
NonConflicting ==
    \A m, n \in 1..Len(treeGroup) : m /= n => ~IsPrefix(PartsOf(m), PartsOf(n))

\* C2: with distinct, non-conflicting change paths, every change that carries
\* content reads back with that content and mode, below tree entries for every
\* directory of its path.
C2_ChangesReadBack ==
    (Returned /\ NonConflicting) =>
        \A n \in 1..Len(treeGroup) :
            HasContent(n) =>
                /\ FileAt(NewTree, PartsOf(n)) =
                       [mode |-> treeGroup[n].mode, content |-> treeGroup[n].content]
                /\ \A d \in 1..(Len(PartsOf(n)) - 1) :
                       LET e == Lookup(NewTree, SubSeq(PartsOf(n), 1, d))
                       IN  e.type = "tree" /\ e.mode = "040000"

\* Two changes with content share a top directory the existing tree lacks, one
\* of them two directories deep.
C2_Witness ==
    /\ Returned /\ NonConflicting
    /\ \E m, n \in 1..Len(treeGroup) :
           /\ m < n /\ HasContent(m) /\ HasContent(n)
           /\ Len(PartsOf(m)) = 2 /\ Len(PartsOf(n)) = 3
           /\ Head(PartsOf(m)) = Head(PartsOf(n))
           /\ ~Exists(OldTree, <<Head(PartsOf(n))>>)

\* C6: descending through a name that is a blob entry ends the build with a
\* path-conflict error.
C6_BlobSegmentIsConflict ==
    blobAsDir => (pc = "failed" /\ error.step = "pathConflict")

\* C7: a change list holding x with content and x/y never builds a tree.
C7_FileAndChildConflict ==
    Returned =>
        ~ \E m, n \in 1..Len(treeGroup) :
              HasContent(m) /\ IsProperPrefix(PartsOf(m), PartsOf(n))

\* C8: the single change 'delete p', p not in the existing tree, builds a tree
\* with the entries and content of the existing tree.
C8_DeleteMissingIsNoOp ==
    (/\ Returned
     /\ Len(treeGroup) = 1
     /\ treeGroup[1].content = NULL
     /\ ~Exists(OldTree, PartsOf(1)))
    => Entries(NewTree, <<>>) = Entries(OldTree, <<>>)

---------------------------------------------------------------------------
\* Properties of commitAndPush (Spec) and of inGroupsOf (SpecGroups).
BatchSteps == {"getCommit", "readTree", "writeBlob", "writeTree", "Buffer.from",
               "sign", "fetch", "commit"}
ObjectWrites == {"writeBlob", "writeTree", "commit"}
Failed(steps) == error /= NoError /\ error.step \in steps
Count(events, e) == Cardinality({n \in 1..Len(events) : events[n] = e})

\* C3: the commits of one call form a linear chain from the supplied base: the
\* first has the base as its only parent, each later one the commit before it.
C3_LinearChain ==
    \A n \in 1..Len(chain) :
        chain[n].parent = <<IF n = 1 THEN baseHead ELSE chain[n - 1]>>

C3_Witness == Len(chain) >= 2 /\ pc = "done"

\* C4: once a step of a batch has failed, the branch reference has not been
\* written and is at its pre-call head, and no branch points at a commit the
\* call created.
C4_FailedBatchLeavesRef ==
    Failed(BatchSteps) =>
        /\ localRef = preHead
        /\ Count(log, "writeRef") = 0
        /\ \A n \in 1..Len(chain) : chain[n] \notin {localRef, remoteRef}

\* A later batch fails after an earlier one was committed.
C4_Witness == Failed(BatchSteps) /\ Len(chain) >= 1 /\ pc = "failed"

\* C5 as stated: a call that ended in an error, at whatever step, left the
\* branch reference at its pre-call head.
C5_AnyFailureLeavesRef == pc = "failed" => localRef = preHead

\* Concatenation of a sequence of sequences.
RECURSIVE Concat(_)
Concat(groups) == IF groups = <<>> THEN <<>> ELSE Head(groups) \o Concat(Tail(groups))

Ceil(n, g) == (n + g - 1) \div g

\* C9: inGroupsOf yields ceil(n/g) groups, each of at most g elements and
\* only the last of fewer, whose concatenation is the sequence it was given.
C9_GroupsPartition ==
    (caller = "inGroupsOf" /\ pc = "generatorDone") =>
        /\ Len(yielded) = Ceil(Len(tree), filesPerCommit)
        /\ \A n \in 1..Len(yielded) :
               /\ Len(yielded[n]) >= 1
               /\ Len(yielded[n]) <= filesPerCommit
               /\ n < Len(yielded) => Len(yielded[n]) = filesPerCommit
        /\ Concat(yielded) = tree

\* Two full groups and a shorter last one.
C9_Witness ==
    /\ caller = "inGroupsOf" /\ pc = "generatorDone"
    /\ Len(yielded) = 3
    /\ Len(yielded[3]) < filesPerCommit

\* C10: in the order the remote calls complete, no object write follows the
\* reference update, neither follows the push, and the push follows a
\* reference update.
C10_WritesThenRefThenPush ==
    \A n \in 1..Len(log) :
        /\ log[n] = "writeRef" =>
               \A m \in (n + 1)..Len(log) : log[m] \notin ObjectWrites
        /\ log[n] = "push" =>
               /\ \A m \in (n + 1)..Len(log) : log[m] \notin ObjectWrites \cup {"writeRef"}
               /\ \E m \in 1..(n - 1) : log[m] = "writeRef"

\* Two batches were written and committed, the reference updated, the push made.
C10_Witness ==
    /\ pc = "done"
    /\ Count(log, "commit") >= 2 /\ Count(log, "writeBlob") >= 2
    /\ Count(log, "writeRef") = 1 /\ Count(log, "push") = 1

---------------------------------------------------------------------------
\* C11: once a step of commitAndPush has failed, no further remote call
\* completes: no batch is processed, no reference is written, nothing is pushed.
C11_FailureShortCircuits ==
    [][error /= NoError =>
           UNCHANGED <<log, objects, localRef, remoteRef, chain, yielded>>]_vars

\* A batch step failed while changes were still waiting for a later batch.
C11_Witness == pc = "failed" /\ Failed(BatchSteps) /\ i < Len(tree)

\* C12: a reference update that is not forced never goes through when the
\* branch has advanced past the chain's base, and leaves the branch at that
\* head; a forced one is never refused by the store, and the branch then points
\* at the new head.
C12_NonForceNeedsFastForward ==
    /\ (~force /\ ~FastForward(preHead, refHead)) =>
           (localRef = preHead /\ Count(log, "writeRef") = 0)
    /\ (force /\ pc = "updateRef") => ENABLED UpdateRef
    /\ Count(log, "writeRef") >= 1 => localRef = refHead

\* A forced update has overwritten a branch that had advanced past the base.
C12_Witness ==
    /\ force /\ preHead /= baseHead
    /\ Count(log, "writeRef") = 1 /\ Len(chain) >= 1
    /\ localRef = chain[Len(chain)]

---------------------------------------------------------------------------
\* branch (branch.ts 131-152) and the functions it calls.
DEFAULT_PRIMARY_BRANCH == "main"

BranchNames == {"main", "dev"}
CommitIds == {"c1", "c2"}

\* The branches of a repository: a commit id per name, NULL where there is none.
Repos == [BranchNames -> CommitIds \cup {NULL}]

\* baseBranch: string = DEFAULT_PRIMARY_BRANCH
BaseBranchOf(arg) == IF arg = UNDEFINED THEN DEFAULT_PRIMARY_BRANCH ELSE arg

\* !!data.commit.id
Truthy(v) == v \notin {"", NULL, UNDEFINED}

\* Mutant of ShouldCreate: the request is issued whether or not the branch exists.
ShouldCreateAlways(duplicate) == TRUE

\* if (!duplicate)
ShouldCreate(duplicate) == ~duplicate

\* The body of POST /repos/{owner}/{repo}/branches
CreateRequest(name, baseSha) == [new_branch_name |-> name, old_ref_name |-> baseSha]

\* getBranchHead: octokit.repos.getBranch on the upstream repository.
GetBranchHeadOK ==
    /\ pc = "getBranchHead"
    /\ br.upstream[BaseBranchOf(br.baseBranch)] /= NULL
    /\ br' = [br EXCEPT !.baseSha = br.upstream[BaseBranchOf(br.baseBranch)]]
    /\ log' = Append(log, "getBranch")
    /\ pc' = "existsBranchWithName"
    /\ error' = error
    /\ UNCHANGED <<rival, caller, objects, localRef, preHead, remoteRef, baseHead, refHead,
                   tree, filesPerCommit, force, signer, i, treeGroup, currentTree, k,
                   treeSha, signature, chain, yielded, blobAsDir>>

\* The request fails: 404 when there is no such branch, or any other failure.
GetBranchHeadFail ==
    /\ pc = "getBranchHead"
    /\ \E status \in {404, 500} :
           /\ status = 404 <=> br.upstream[BaseBranchOf(br.baseBranch)] = NULL
           /\ br' = [br EXCEPT !.status = status]
    /\ log' = Append(log, "getBranch")
    /\ Throw("getBranch", "")
    /\ UNCHANGED <<rival, caller, objects, localRef, preHead, remoteRef, baseHead, refHead,
                   tree, filesPerCommit, force, signer, i, treeGroup, currentTree, k,
                   treeSha, signature, chain, yielded, blobAsDir>>

\* existsBranchWithName: GET /repos/{owner}/{repo}/branches/{branch} answers.
ExistsBranchFound ==
    /\ pc = "existsBranchWithName"
    /\ br.origin[br.name] /= NULL
    /\ br' = [br EXCEPT !.duplicate = Truthy(br.origin[br.name])]
    /\ log' = Append(log, "GET branch")
    /\ pc' = "createBranch"
    /\ error' = error
    /\ UNCHANGED <<rival, caller, objects, localRef, preHead, remoteRef, baseHead, refHead,
                   tree, filesPerCommit, force, signer, i, treeGroup, currentTree, k,
                   treeSha, signature, chain, yielded, blobAsDir>>

\* The request fails with 404, which the catch turns into false.
ExistsBranchNotFound ==
    /\ pc = "existsBranchWithName"
    /\ br.origin[br.name] = NULL
    /\ br' = [br EXCEPT !.duplicate = FALSE]
    /\ log' = Append(log, "GET branch")
    /\ pc' = "createBranch"
    /\ error' = error
    /\ UNCHANGED <<rival, caller, objects, localRef, preHead, remoteRef, baseHead, refHead,
                   tree, filesPerCommit, force, signer, i, treeGroup, currentTree, k,
                   treeSha, signature, chain, yielded, blobAsDir>>

\* The request fails with another status, which the catch throws again.
ExistsBranchFail ==
    /\ pc = "existsBranchWithName"
    /\ br' = [br EXCEPT !.status = 500]
    /\ log' = Append(log, "GET branch")
    /\ Throw("GET branch", "")
    /\ UNCHANGED <<rival, caller, objects, localRef, preHead, remoteRef, baseHead, refHead,
                   tree, filesPerCommit, force, signer, i, treeGroup, currentTree, k,
                   treeSha, signature, chain, yielded, blobAsDir>>

\* createBranch issues the request, and branch returns baseSha.
CreateBranchPost ==
    /\ pc = "createBranch"
    /\ ShouldCreate(br.duplicate)
    /\ br' = [br EXCEPT !.posts = Append(br.posts, CreateRequest(br.name, br.baseSha)),
                        !.result = br.baseSha]
    /\ log' = Append(log, "POST branches")
    /\ pc' = "returned"
    /\ error' = error
    /\ UNCHANGED <<rival, caller, objects, localRef, preHead, remoteRef, baseHead, refHead,
                   tree, filesPerCommit, force, signer, i, treeGroup, currentTree, k,
                   treeSha, signature, chain, yielded, blobAsDir>>

CreateBranchPostFail ==
    /\ pc = "createBranch"
    /\ ShouldCreate(br.duplicate)
    /\ br' = [br EXCEPT !.status = 500]
    /\ log' = Append(log, "POST branches")
    /\ Throw("POST branches", "")
    /\ UNCHANGED <<rival, caller, objects, localRef, preHead, remoteRef, baseHead, refHead,
                   tree, filesPerCommit, force, signer, i, treeGroup, currentTree, k,
                   treeSha, signature, chain, yielded, blobAsDir>>

\* createBranch skips the request, and branch returns baseSha.
CreateBranchSkip ==
    /\ pc = "createBranch"
    /\ ~ShouldCreate(br.duplicate)
    /\ br' = [br EXCEPT !.result = br.baseSha]
    /\ pc' = "returned"
    /\ UNCHANGED <<log, error>>
    /\ UNCHANGED <<rival, caller, objects, localRef, preHead, remoteRef, baseHead, refHead,
                   tree, filesPerCommit, force, signer, i, treeGroup, currentTree, k,
                   treeSha, signature, chain, yielded, blobAsDir>>

branch ==
    \/ GetBranchHeadOK
    \/ GetBranchHeadFail
    \/ ExistsBranchFound
    \/ ExistsBranchNotFound
    \/ ExistsBranchFail
    \/ CreateBranchPost
    \/ CreateBranchPostFail
    \/ CreateBranchSkip

\* branch has been called and is about to resolve the base branch.
InitBranch ==
    /\ \E upstream \in Repos, origin \in Repos, name \in BranchNames,
          baseBranch \in BranchNames \cup {UNDEFINED} :
           br = [upstream |-> upstream, origin |-> origin, name |-> name,
                 baseBranch |-> baseBranch, baseSha |-> UNDEFINED,
                 duplicate |-> FALSE, posts |-> <<>>, status |-> 0,
                 result |-> UNDEFINED]
    /\ caller = "branch"
    /\ pc = "getBranchHead"
    /\ baseHead = BaseCommit(<<>>)
    /\ refHead = baseHead
    /\ objects = StoreOf(baseHead)
    /\ localRef = baseHead
    /\ preHead = baseHead
    /\ remoteRef = baseHead
    /\ tree = <<>>
    /\ filesPerCommit = 1
    /\ force = FALSE
    /\ signer = FALSE
    /\ i = 0
    /\ treeGroup = <<>>
    /\ currentTree = <<>>
    /\ k = 0
    /\ treeSha = UNDEFINED
    /\ signature = UNDEFINED
    /\ chain = <<>>
    /\ yielded = <<>>
    /\ log = <<>>
    /\ error = NoError
    /\ blobAsDir = FALSE
    /\ rival = NoRival

NextBranch == branch

SpecBranch == InitBranch /\ [][NextBranch]_vars

BaseSha == br.upstream[BaseBranchOf(br.baseBranch)]

\* C13: branch resolves the base head before anything else and, when the base
\* branch does not exist, fails after that one request; otherwise it asks for
\* the target branch to be created exactly when the target does not exist,
\* from the resolved base head, and returns the base head either way.
C13_BranchCreatesIfAbsent ==
    caller = "branch" =>
        /\ log /= <<>> => log[1] = "getBranch"
        /\ BaseSha = NULL =>
               /\ pc \in {"getBranchHead", "failed"}
               /\ Count(log, "GET branch") = 0 /\ br.posts = <<>>
        /\ \A n \in 1..Len(br.posts) :
               /\ br.origin[br.name] = NULL
               /\ br.posts[n] = CreateRequest(br.name, BaseSha)
        /\ pc = "returned" =>
               /\ br.result = BaseSha
               /\ Len(br.posts) = (IF br.origin[br.name] = NULL THEN 1 ELSE 0)

\* branch returned after asking for a branch that did not exist, from the head
\* of the default base branch.
C13_Witness ==
    /\ caller = "branch" /\ pc = "returned"
    /\ br.baseBranch = UNDEFINED /\ Len(br.posts) = 1
    /\ br.result = br.upstream["main"]

\* C14: a commitAndPush that succeeded over n changes with group size g >= 1
\* created exactly ceil(n/g) commits, one per batch, and the branch reference
\* is at the last of them.
C14_OneCommitPerBatch ==
    (caller = "commitAndPush" /\ pc = "done" /\ filesPerCommit >= 1) =>
        /\ Len(chain) = Ceil(Len(tree), filesPerCommit)
        /\ Len(chain) = Len(yielded)
        /\ Count(log, "commit") = Len(chain)
        /\ (Len(tree) >= 1 /\ Len(tree) <= filesPerCommit) => Len(chain) = 1
        /\ Len(chain) >= 1 =>
               localRef = chain[Len(chain)] /\ remoteRef = chain[Len(chain)]

\* Two changes went out as two commits of one change each.
C14_Witness ==
    /\ caller = "commitAndPush" /\ pc = "done"
    /\ Len(tree) = 2 /\ filesPerCommit = 1 /\ Len(chain) = 2

RECURSIVE ApplyAll(_, _)
\* The listing the for loop of createTree leaves after the given changes.
ApplyAll(listing, changes) ==
    IF changes = <<>> THEN listing
    ELSE ApplyAll(updateTreeRecursively(listing, Split(Head(changes).path),
                                        Head(changes)).tree,
                  Tail(changes))

ParentTree(n) == ReadTree((IF n = 1 THEN baseHead ELSE chain[n - 1]).tree)

\* C15: the tree of each batch's commit is the batch applied to the tree of the
\* commit before it (the base for the first), and once every batch is committed
\* the last tree is all changes applied in order to the base tree in one go.
C15_FinalTreeIndependentOfGrouping ==
    caller = "commitAndPush" =>
        /\ \A n \in 1..Len(chain) :
               chain[n].tree = WriteTree(ApplyAll(ParentTree(n), yielded[n]))
        /\ (Len(chain) >= 1 /\ Len(chain) = Len(yielded) /\ i >= Len(tree)) =>
               chain[Len(chain)].tree = WriteTree(ApplyAll(OldTree, tree))

\* Two batches were committed, and the second batch alone on the base tree
\* would have given another tree.
C15_Witness ==
    /\ caller = "commitAndPush" /\ pc = "done" /\ Len(chain) = 2
    /\ chain[2].tree /= WriteTree(ApplyAll(OldTree, yielded[2]))

\* The changes of the batch that name the path of change n.
Occurrences(n) == {m \in 1..Len(treeGroup) : PartsOf(m) = PartsOf(n)}

\* Change n is the last one for its path, and no later change names a path
\* above or below it.
LastWord(n) ==
    \A m \in (n + 1)..Len(treeGroup) : ~IsPrefix(PartsOf(m), PartsOf(n))
                                        /\ ~IsPrefix(PartsOf(n), PartsOf(m))

RemoteSteps == {"getCommit", "readTree", "writeBlob", "writeTree", "fetch",
                "commit", "writeRef", "push"}

\* C17: a commitAndPush that a remote call has failed rejects with a wrapped
\* error, one that names the tree, commit or reference being processed.
C17_RemoteFailuresWrapped ==
    (caller = "commitAndPush" /\ Failed(RemoteSteps)) => error.wrapper /= ""

\* A commit object of the store for the batch createCommit is working on.
CommitOfBatch ==
    {c \in objects : /\ c.kind = "commit"
                     /\ c.tree = treeSha /\ c.parent = <<refHead>>
                     /\ c.message = commitMessage}

\* C18: with a signer, every commit was preceded by one signer call of its own,
\* made over the message, tree and single parent the commit was created with,
\* and a failed signer call leaves no commit for its batch; without a signer
\* no signer call is made and no commit carries a signature.
C18_SignedOncePerCommit ==
    caller = "commitAndPush" =>
        IF signer
        THEN /\ Count(log, "sign") - Count(log, "commit") \in {0, 1}
             /\ Count(log, "commit") = Len(chain)
             /\ \A n \in 1..Len(chain) :
                    /\ Len(chain[n].parent) = 1
                    /\ chain[n].signingKey =
                           [message |-> chain[n].message, tree |-> chain[n].tree,
                            parents |-> chain[n].parent]
             /\ Failed({"sign"}) =>
                    /\ CommitOfBatch = {}
                    /\ Count(log, "sign") = Len(chain)
        ELSE /\ Count(log, "sign") = 0
             /\ ~Failed({"sign"})
             /\ \A n \in 1..Len(chain) : chain[n].signingKey = UNDEFINED

\* Two batches were signed and committed, each under its own signature.
C18_Witness ==
    /\ caller = "commitAndPush" /\ signer /\ pc = "done" /\ Len(chain) = 2
    /\ Count(log, "sign") = 2
    /\ chain[1].signingKey /= chain[2].signingKey

---------------------------------------------------------------------------
\* Two commitAndPush calls on one branch of one repository.  The second call
\* is followed only where it meets the first: the commit its loop ends with,
\* its updateRef, its push.
RivalCommit(parentId) ==
    [kind |-> "commit", tree |-> parentId.tree, parent |-> <<parentId>>,
     message |-> "rival", signingKey |-> UNDEFINED]

\* The for...of loop of the other call (268-277) ends with its commit written.
RivalLoop ==
    /\ rival.pc = "loop"
    /\ objects' = objects \cup {rival.head}
    /\ rival' = [rival EXCEPT !.pc = "updateRef"]
    /\ UNCHANGED <<localRef, remoteRef>>
    /\ UNCHANGED <<br, pc, caller, preHead, baseHead, refHead, tree, filesPerCommit,
                   force, signer, i, treeGroup, currentTree, k, treeSha, signature,
                   chain, yielded, log, error, blobAsDir>>

RivalLoopFail ==
    /\ rival.pc = "loop"
    /\ rival' = [rival EXCEPT !.pc = "failed"]
    /\ UNCHANGED <<objects, localRef, remoteRef>>
    /\ UNCHANGED <<br, pc, caller, preHead, baseHead, refHead, tree, filesPerCommit,
                   force, signer, i, treeGroup, currentTree, k, treeSha, signature,
                   chain, yielded, log, error, blobAsDir>>

\* updateRef of the other call (279)
RivalUpdateRef ==
    /\ rival.pc = "updateRef"
    /\ WriteRefForce(force) \/ FastForward(localRef, rival.head)
    /\ localRef' = rival.head
    /\ rival' = [rival EXCEPT !.pc = "push", !.wrote = TRUE]
    /\ UNCHANGED <<objects, remoteRef>>
    /\ UNCHANGED <<br, pc, caller, preHead, baseHead, refHead, tree, filesPerCommit,
                   force, signer, i, treeGroup, currentTree, k, treeSha, signature,
                   chain, yielded, log, error, blobAsDir>>

RivalUpdateRefFail ==
    /\ rival.pc = "updateRef"
    /\ rival' = [rival EXCEPT !.pc = "failed"]
    /\ UNCHANGED <<objects, localRef, remoteRef>>
    /\ UNCHANGED <<br, pc, caller, preHead, baseHead, refHead, tree, filesPerCommit,
                   force, signer, i, treeGroup, currentTree, k, treeSha, signature,
                   chain, yielded, log, error, blobAsDir>>

\* git.push of the other call (281)
RivalPush ==
    /\ rival.pc = "push"
    /\ force \/ FastForward(remoteRef, localRef)
    /\ remoteRef' = localRef
    /\ rival' = [rival EXCEPT !.pc = "done"]
    /\ UNCHANGED <<objects, localRef>>
    /\ UNCHANGED <<br, pc, caller, preHead, baseHead, refHead, tree, filesPerCommit,
                   force, signer, i, treeGroup, currentTree, k, treeSha, signature,
                   chain, yielded, log, error, blobAsDir>>

RivalPushFail ==
    /\ rival.pc = "push"
    /\ rival' = [rival EXCEPT !.pc = "failed"]
    /\ UNCHANGED <<objects, localRef, remoteRef>>
    /\ UNCHANGED <<br, pc, caller, preHead, baseHead, refHead, tree, filesPerCommit,
                   force, signer, i, treeGroup, currentTree, k, treeSha, signature,
                   chain, yielded, log, error, blobAsDir>>

rivalCall ==
    \/ RivalLoop \/ RivalLoopFail
    \/ RivalUpdateRef \/ RivalUpdateRefFail
    \/ RivalPush \/ RivalPushFail

\* Both calls were made with force false and the same refHead, with the branch
\* at that commit.
InitConc ==
    /\ baseHead \in {BaseCommit(t) : t \in PushTrees}
    /\ tree \in {generateTreeObjects(ch) : ch \in ChangeMaps}
    /\ filesPerCommit \in 1..MaxGroupSize
    /\ force = FALSE
    /\ signer \in BOOLEAN
    /\ caller = "commitAndPush"
    /\ pc = "inGroupsOf"
    /\ refHead = baseHead
    /\ localRef = baseHead
    /\ objects = StoreOf(baseHead)
    /\ preHead = localRef
    /\ remoteRef = localRef
    /\ i = 0
    /\ treeGroup = <<>>
    /\ currentTree = <<>>
    /\ k = 0
    /\ treeSha = UNDEFINED
    /\ signature = UNDEFINED
    /\ chain = <<>>
    /\ yielded = <<>>
    /\ log = <<>>
    /\ error = NoError
    /\ blobAsDir = FALSE
    /\ rival = [pc |-> "loop", head |-> RivalCommit(baseHead), wrote |-> FALSE]
    /\ br = NoBranchCall

NextConc ==
    \/ inGroupsOf
    \/ createTree
    \/ createCommit
    \/ updateRef
    \/ Push \/ PushFail
    \/ rivalCall

SpecConc == InitConc /\ [][NextConc]_vars

\* The commits that calls which reported success ended with.
SuccessHeads ==
    (IF pc = "done" THEN {refHead} ELSE {}) \cup
    (IF rival.pc = "done" THEN {rival.head} ELSE {})

BothEnded == pc \in {"done", "failed"} /\ rival.pc \in {"done", "failed"}

\* C19: of two unforced calls from one base on one branch, at most one moves
\* the branch reference, and once both have ended the branch is where it was
\* or at the last commit of a call that reported success.
C19_OneWriterWins ==
    (caller = "commitAndPush" /\ rival.pc /= "none") =>
        /\ ~(rival.wrote /\ Count(log, "writeRef") >= 1 /\ Len(chain) >= 1)
        /\ BothEnded => localRef \in SuccessHeads \cup {baseHead}

---------------------------------------------------------------------------
\* commitAndPush called with options.filesPerCommit below 1.
BadFilesPerCommitValues == {-1, 0}

InitBadSize ==
    /\ baseHead \in {BaseCommit(t) : t \in PushTrees}
    /\ tree \in {generateTreeObjects(ch) : ch \in ChangeMaps}
    /\ filesPerCommit \in BadFilesPerCommitValues
    /\ force = FALSE
    /\ signer \in BOOLEAN
    /\ caller = "commitAndPush"
    /\ pc = "inGroupsOf"
    /\ refHead = baseHead
    /\ localRef = baseHead
    /\ objects = StoreOf(baseHead)
    /\ preHead = localRef
    /\ remoteRef = localRef
    /\ i = 0
    /\ treeGroup = <<>>
    /\ currentTree = <<>>
    /\ k = 0
    /\ treeSha = UNDEFINED
    /\ signature = UNDEFINED
    /\ chain = <<>>
    /\ yielded = <<>>
    /\ log = <<>>
    /\ error = NoError
    /\ blobAsDir = FALSE
    /\ rival = NoRival
    /\ br = NoBranchCall

NextBadSize ==
    \/ inGroupsOf
    \/ createTree
    \/ createCommit
    \/ updateRef
    \/ Push \/ PushFail

SpecBadSize == InitBadSize /\ [][NextBadSize]_vars

\* C20: with changes to push and a group size below 1, commitAndPush yields no
\* batch and creates no commit: it can only end with an error.
C20_BadGroupSizeFails ==
    (caller = "commitAndPush" /\ filesPerCommit < 1 /\ Len(tree) >= 1) =>
        /\ Len(yielded) = 0
        /\ Len(chain) = 0
        /\ pc \in {"inGroupsOf", "failed"}

\* The directory at a path has, in the later listing, a tree id it did not
\* have in the earlier one.
NewTreeId(earlier, later, q) ==
    /\ Lookup(later, q).type = "tree"
    /\ \/ Lookup(earlier, q).type /= "tree"
       \/ Lookup(earlier, q).oid /= Lookup(later, q).oid

C22_EmptyChangeSet ==
    (caller = "commitAndPush" /\ Len(tree) = 0) =>
        /\ yielded = <<>> /\ chain = <<>>
        /\ treeSha = UNDEFINED /\ refHead = baseHead
        /\ objects = StoreOf(baseHead) \cup {preHead}
        /\ log \in {<<>>, <<"writeRef">>, <<"writeRef", "push">>}
        /\ pc \in {"inGroupsOf", "updateRef", "push", "done", "failed"}
        /\ Failed(BatchSteps) = FALSE
        /\ log /= <<>> => localRef = baseHead
        /\ Len(log) = 2 => remoteRef = baseHead

\* The call with no changes ran to its end: one reference update, one push.
C22_Witness ==
    /\ caller = "commitAndPush" /\ Len(tree) = 0 /\ pc = "done"
    /\ log = <<"writeRef", "push">>
    /\ localRef = baseHead /\ chain = <<>>

\* The directory above the path of change n.
ParentDir(n) == SubSeq(PartsOf(n), 1, Len(PartsOf(n)) - 1)

\* Change n names the one entry of its directory in the existing tree.
OnlyEntry(n) ==
    /\ Len(PartsOf(n)) >= 2
    /\ LET e == Lookup(OldTree, ParentDir(n))
       IN  /\ e.type = "tree"
           /\ Len(ReadTree(e.oid)) = 1
           /\ ReadTree(e.oid)[1].path = PartsOf(n)[Len(PartsOf(n))]

\* C23: a deletion of the only entry of a directory leaves the directory in
\* place: its parent has an entry for it, of mode 040000, whose id is that of a
\* newly written empty tree, and every directory above it is still a
\* directory entry of mode 040000.
C23_EmptyDirectoryKept ==
    (Returned /\ Len(treeGroup) = 1 /\ treeGroup[1].content = NULL /\ OnlyEntry(1)) =>
        /\ Lookup(NewTree, ParentDir(1)) =
               [mode |-> "040000", path |-> PartsOf(1)[Len(PartsOf(1)) - 1],
                oid |-> WriteTree(<<>>), type |-> "tree"]
        /\ WriteTree(<<>>) \in objects \ StoreOf(baseHead)
        /\ ~Exists(NewTree, PartsOf(1))
        /\ \A d \in 1..(Len(PartsOf(1)) - 1) :
               LET e == Lookup(NewTree, SubSeq(PartsOf(1), 1, d))
               IN  e.type = "tree" /\ e.mode = "040000"

\* The only file of a directory two levels down was deleted.
C23_Witness ==
    /\ Returned /\ Len(treeGroup) = 1 /\ treeGroup[1].content = NULL
    /\ OnlyEntry(1) /\ Len(PartsOf(1)) = 3
    /\ Lookup(NewTree, ParentDir(1)).oid = WriteTree(<<>>)

\* C24: a change whose content is the empty string is passed on by
\* generateTreeObjects with its content, and the tree built has at its path a
\* blob entry of the change's mode whose id is that of the empty blob, written
\* to the store, whether or not the path was there; a change that carries any
\* content leaves an entry at its path.
C24_EmptyContentIsAnUpdate ==
    Returned =>
        \A n \in 1..Len(treeGroup) :
            /\ (treeGroup[n].content = "" /\ LastWord(n)) =>
                   /\ treeGroup[n] = TreeObjectOf(treeGroup[n].path,
                                                  [content |-> "",
                                                   mode |-> treeGroup[n].mode])
                   /\ LET e == Lookup(NewTree, PartsOf(n))
                      IN  /\ e.type = "blob"
                          /\ e.mode = treeGroup[n].mode
                          /\ e.path = PartsOf(n)[Len(PartsOf(n))]
                          /\ e.oid = Blob("")
                   /\ Blob("") \in objects
            /\ (HasContent(n) /\ LastWord(n)) => Exists(NewTree, PartsOf(n))

\* A file that had content was given the empty string, and is now empty.
C24_Witness ==
    /\ Returned /\ Len(treeGroup) = 1 /\ treeGroup[1].content = ""
    /\ FileAt(OldTree, PartsOf(1)).content = "o"
    /\ FileAt(NewTree, PartsOf(1)).content = ""

====
